---- MODULE Spec2Model ----
(***************************************************************************)
(* Ballot encryption pipeline of electionguard                             *)
(* (src/src/electionguard/encryption_compositor.py): encrypt_selection,    *)
(* encrypt_contest, encrypt_ballot and EncryptionCompositor.encrypt.       *)
(*                                                                         *)
(* Group elements are kept in discrete-log form: a ciphertext (g^r,        *)
(* g^m K^r) is the record [m, r, k] with r the list of nonces summed in    *)
(* the exponent, and a hash is the tuple of its inputs (collision free).   *)
(* A Python string object is a value with an identity, so that `is` and    *)
(* `==` are different relations.                                           *)
(***************************************************************************)
EXTENDS Integers, Sequences, FiniteSets, TLC

VARIABLES compositor, op, args, result, trace, calls, draws, accepted, memo

vars == <<compositor, op, args, result, trace, calls, draws, accepted, memo>>

\* ------------------------------------------------------------------ bounds

\* highest sequence_order of a selection description
MaxSeq == 1
\* highest number_elected of a contest description
MaxElected == 2
\* number of encrypt_ballot calls followed
MaxCalls == 2
\* randbelow(Q) draws from 0..Q-1
Q == 2

\* ------------------------------------------------------------------ values

\* Optional[...]: the absence value, and a raised exception
None == [kind |-> "None"]
Fault == [kind |-> "Fault"]
IsSome(x) == x.kind # "None" /\ x.kind # "Fault"

\* a Python str object: its value and its identity
Str(s, ref) == [s |-> s, ref |-> ref]
\* a is b
PyIs(a, b) == a.s = b.s /\ a.ref = b.ref
\* a == b
PyEq(a, b) == a.s = b.s
\* str(bool)
PyStr(b) == IF b THEN "True" ELSE "False"

RECURSIVE SumSeq(_)
SumSeq(s) == IF s = <<>> THEN 0 ELSE Head(s) + SumSeq(Tail(s))

RECURSIVE Count(_, _)
Count(s, x) == IF s = <<>> THEN 0 ELSE (IF Head(s) = x THEN 1 ELSE 0) + Count(Tail(s), x)

\* ------------------------------------------------------------------ collaborators

\* hash_elems(*inputs): deterministic and order sensitive
hash_elems(a, b, c) == <<a, b, c>>

\* SelectionDescription.crypto_hash(), ContestDescription.crypto_hash()
crypto_hash(description) == <<description.object_id.s, description.sequence_order>>

\* Nonces(head, seed)
Nonces(head, seed) == [head |-> head, seed |-> seed]
\* nonce_sequence[i]
NonceAt(nonce_sequence, i) == hash_elems(nonce_sequence.head, nonce_sequence.seed, i)
\* next(iter(nonce_sequence)): the first item of the sequence
NextNonce(nonce_sequence) == NonceAt(nonce_sequence, 0)

\* the zero element of Z_q
ZeroModQ == <<>>

\* elgamal_encrypt(m, nonce, public_key): (g^nonce, g^m K^nonce), none for a zero nonce
elgamal_encrypt(m, nonce, public_key) ==
    IF nonce = ZeroModQ THEN None
    ELSE [kind |-> "ElGamalCiphertext", m |-> m, r |-> <<nonce>>, k |-> public_key]

\* flatmap_optional(optional, mapper)
flatmap_optional(optional, mapped) == IF optional = None THEN None ELSE mapped

\* PlaintextBallotSelection.to_int()
to_int(selection) ==
    CASE selection.plaintext = "True" -> 1
      [] selection.plaintext = "False" -> 0
      [] OTHER -> 2

\* PlaintextBallotSelection.is_valid(expected_object_id)
selection_is_valid(selection, expected_object_id) ==
    /\ PyEq(selection.object_id, expected_object_id)
    /\ to_int(selection) \in {0, 1}

\* make_disjunctive_chaum_pedersen(message, r, k, seed, plaintext)
make_disjunctive_chaum_pedersen(message, r, k, seed, plaintext) ==
    IF plaintext \notin {0, 1} THEN None
    ELSE [kind |-> "DisjunctiveChaumPedersenProof", message |-> message, k |-> k,
          seed |-> seed, sound |-> message = elgamal_encrypt(plaintext, r, k)]

\* CyphertextBallotSelection.is_valid_encryption(seed_hash, elgamal_public_key)
selection_is_valid_encryption(encrypted_selection, seed_hash, elgamal_public_key) ==
    /\ encrypted_selection.description_hash = seed_hash
    /\ encrypted_selection.message # None
    /\ encrypted_selection.proof # None
    /\ encrypted_selection.proof.message = encrypted_selection.message
    /\ encrypted_selection.proof.k = elgamal_public_key
    /\ encrypted_selection.proof.sound

\* PlaintextBallotContest.is_valid(expected_object_id, expected_number_selections,
\*                                  expected_number_elected, votes_allowed)
contest_is_valid(contest, expected_object_id, expected_number_selections, expected_number_elected, votes_allowed) ==
    LET votes == [j \in 1..Len(contest.ballot_selections) |-> to_int(contest.ballot_selections[j])]
        elected == Cardinality({j \in 1..Len(votes) : votes[j] >= 1})
    IN  /\ PyEq(contest.object_id, expected_object_id)
        /\ Len(contest.ballot_selections) <= expected_number_selections
        /\ elected <= expected_number_elected
        /\ SumSeq(votes) <= votes_allowed

\* elgamal_add(*ciphertexts): the product of the pads and of the data
RECURSIVE elgamal_add(_)
elgamal_add(ciphertexts) ==
    IF Len(ciphertexts) = 1 THEN ciphertexts[1]
    ELSE LET rest == elgamal_add(Tail(ciphertexts))
         IN  [kind |-> "ElGamalCiphertext", m |-> ciphertexts[1].m + rest.m,
              r |-> ciphertexts[1].r \o rest.r, k |-> ciphertexts[1].k]

\* a member of the contest is absent or has no ciphertext: reading it raises
HasAbsent(selections) ==
    \E j \in 1..Len(selections) : selections[j] = None \/ selections[j].message = None

\* CyphertextBallotContest.elgamal_accumulate()
elgamal_accumulate(selections) ==
    elgamal_add([j \in 1..Len(selections) |-> selections[j].message])

\* CyphertextBallotContest.aggregate_nonce(): the sum of the selection nonces
RECURSIVE aggregate_nonce(_)
aggregate_nonce(selections) ==
    IF selections = <<>> THEN <<>>
    ELSE <<Head(selections).nonce>> \o aggregate_nonce(Tail(selections))

\* make_constant_chaum_pedersen(message, constant, r, k, seed)
make_constant_chaum_pedersen(message, constant, r, k, seed) ==
    IF constant < 0 THEN None
    ELSE [kind |-> "ConstantChaumPedersenProof", message |-> message, constant |-> constant,
          k |-> k, seed |-> seed,
          sound |-> message = [kind |-> "ElGamalCiphertext", m |-> constant, r |-> r, k |-> k]]

\* CyphertextBallotContest.is_valid_encryption(seed_hash, elgamal_public_key)
contest_is_valid_encryption(encrypted_contest, seed_hash, elgamal_public_key) ==
    /\ encrypted_contest.description_hash = seed_hash
    /\ encrypted_contest.proof # None
    /\ encrypted_contest.proof.message = elgamal_accumulate(encrypted_contest.ballot_selections)
    /\ encrypted_contest.proof.k = elgamal_public_key
    /\ encrypted_contest.proof.sound

\* ------------------------------------------------------------------ encryption_compositor.py

\* selection_from(description, is_placeholder, is_affirmative)
selection_from(description, is_placeholder, is_affirmative) ==
    [object_id |-> description.object_id, plaintext |-> PyStr(is_affirmative),
     is_placeholder |-> is_placeholder]

\* placeholder_selection_description_from(description, sequence_order):
\* the f-string builds a new str object
placeholder_selection_description_from(description, sequence_order) ==
    [object_id |-> Str(description.object_id.s \o "-" \o ToString(sequence_order), 1),
     sequence_order |-> sequence_order]

\* contest_from(description)
contest_from(description) ==
    [object_id |-> description.object_id,
     ballot_selections |-> [j \in 1..Len(description.ballot_selections) |->
                               selection_from(description.ballot_selections[j], FALSE, FALSE)]]

\* encrypt_selection, lines 107-108: the selection nonce
selection_nonce_of(selection_description, seed) ==
    NonceAt(Nonces(crypto_hash(selection_description), seed), selection_description.sequence_order)

\* encrypt_selection, line 138: the seed of the disjunctive proof
selection_proof_seed(selection_description, seed) ==
    NextNonce(Nonces(crypto_hash(selection_description), seed))

\* encrypt_selection, lines 143-152: the optional self-verification
verify_selection(encrypted_selection, selection_description, elgamal_public_key, should_verify_proofs) ==
    IF ~should_verify_proofs
    THEN [ret |-> encrypted_selection, trace |-> <<"validate", "nonce", "encrypt", "proof">>]
    ELSE IF selection_is_valid_encryption(encrypted_selection, crypto_hash(selection_description),
                                          elgamal_public_key)
         THEN [ret |-> encrypted_selection,
               trace |-> <<"validate", "nonce", "encrypt", "proof", "verify">>]
         ELSE [ret |-> None, trace |-> <<"validate", "nonce", "encrypt", "proof", "verify">>]

\* encrypt_selection, lines 107-152: what follows the validation
encrypt_valid_selection(selection, selection_description, elgamal_public_key, seed, is_placeholder, should_verify_proofs) ==
         LET selection_nonce == selection_nonce_of(selection_description, seed)
             selection_representation == to_int(selection)
             elgamal_encryption ==
                 elgamal_encrypt(selection_representation, selection_nonce, elgamal_public_key)
             encrypted_selection ==
                 [kind |-> "CyphertextBallotSelection",
                  object_id |-> selection.object_id,
                  description_hash |-> crypto_hash(selection_description),
                  message |-> elgamal_encryption,
                  is_placeholder |-> is_placeholder,
                  nonce |-> selection_nonce,
                  proof |-> flatmap_optional(elgamal_encryption,
                                make_disjunctive_chaum_pedersen(
                                    elgamal_encryption, selection_nonce, elgamal_public_key,
                                    selection_proof_seed(selection_description, seed),
                                    selection_representation))]
         IN  verify_selection(encrypted_selection, selection_description, elgamal_public_key,
                              should_verify_proofs)

\* encrypt_selection without the validation of lines 103-105
encrypt_selection_unvalidated(selection, selection_description, elgamal_public_key, seed, is_placeholder, should_verify_proofs) ==
    encrypt_valid_selection(selection, selection_description, elgamal_public_key, seed,
                            is_placeholder, should_verify_proofs)

\* encrypt_selection(selection, selection_description, elgamal_public_key, seed,
\*                   is_placeholder = False, should_verify_proofs = True)
encrypt_selection(selection, selection_description, elgamal_public_key, seed, is_placeholder, should_verify_proofs) ==
    IF ~selection_is_valid(selection, selection_description.object_id)
    THEN [ret |-> None, trace |-> <<"validate">>]
    ELSE encrypt_valid_selection(selection, selection_description, elgamal_public_key, seed,
                                 is_placeholder, should_verify_proofs)

\* encrypt_contest, lines 207-218: the voter's selections matching one description;
\* acc is (has_selection, selection_count, encrypted_selection)
RECURSIVE match_selections(_, _, _, _, _)
match_selections(selections, description, elgamal_public_key, contest_nonce, acc) ==
    IF selections = <<>> THEN acc
    ELSE LET selection == Head(selections)
         IN  IF PyIs(selection.object_id, description.object_id)
             THEN match_selections(Tail(selections), description, elgamal_public_key, contest_nonce,
                      [has_selection |-> TRUE,
                       selection_count |-> acc.selection_count + to_int(selection),
                       encrypted_selection |->
                           encrypt_selection(selection, description, elgamal_public_key,
                                             contest_nonce, FALSE, TRUE).ret])
             ELSE match_selections(Tail(selections), description, elgamal_public_key,
                                   contest_nonce, acc)

\* encrypt_contest, lines 196-228: one encrypted selection per selection description;
\* acc is (selection_count, highest_sequence_order, encrypted_selections)
RECURSIVE encrypt_real_selections(_, _, _, _, _)

\* encrypt_contest, lines 199-201 and 219-228: the end of one round of the loop, with
\* what the inner loop found
append_real_selection(descriptions, contest, elgamal_public_key, contest_nonce, acc, matched) ==
    LET description == Head(descriptions)
        highest == IF description.sequence_order > acc.highest_sequence_order
                   THEN description.sequence_order
                   ELSE acc.highest_sequence_order
        encrypted_selection ==
            IF ~matched.has_selection
            THEN encrypt_selection(selection_from(description, FALSE, FALSE), description,
                                   elgamal_public_key, contest_nonce, FALSE, TRUE).ret
            ELSE matched.encrypted_selection
    IN  encrypt_real_selections(Tail(descriptions), contest, elgamal_public_key, contest_nonce,
            [selection_count |-> matched.selection_count,
             highest_sequence_order |-> highest,
             encrypted_selections |-> Append(acc.encrypted_selections, encrypted_selection)])

encrypt_real_selections(descriptions, contest, elgamal_public_key, contest_nonce, acc) ==
    IF descriptions = <<>> THEN acc
    ELSE append_real_selection(descriptions, contest, elgamal_public_key, contest_nonce, acc,
             match_selections(contest.ballot_selections, Head(descriptions),
                 elgamal_public_key, contest_nonce,
                 [has_selection |-> FALSE,
                  selection_count |-> acc.selection_count,
                  encrypted_selection |-> None]))

\* line 241 with <= for <: one true placeholder too many
select_placeholder_for_inclusive(selection_count, number_elected) ==
    selection_count <= number_elected

\* encrypt_contest, line 241: is this placeholder a true vote
select_placeholder_for(selection_count, number_elected) == selection_count < number_elected

\* encrypt_contest, line 247: the sequence_order of placeholder i
placeholder_sequence_order(highest_sequence_order, i) == highest_sequence_order + i

\* encrypt_contest, lines 236-260: for i in range(number_elected), from i on
RECURSIVE encrypt_placeholders(_, _, _, _, _)
encrypt_placeholders(i, contest_description, elgamal_public_key, contest_nonce, acc) ==
    IF i >= contest_description.number_elected THEN acc
    ELSE LET select_placeholder ==
                 select_placeholder_for(acc.selection_count, contest_description.number_elected)
             placeholder_description ==
                 placeholder_selection_description_from(contest_description,
                     placeholder_sequence_order(acc.highest_sequence_order, i))
             encrypted_selection ==
                 encrypt_selection(selection_from(placeholder_description, TRUE, select_placeholder),
                                   placeholder_description, elgamal_public_key, contest_nonce,
                                   FALSE, TRUE).ret
         IN  encrypt_placeholders(i + 1, contest_description, elgamal_public_key, contest_nonce,
                 [selection_count |-> IF select_placeholder THEN acc.selection_count + 1
                                      ELSE acc.selection_count,
                  highest_sequence_order |-> acc.highest_sequence_order,
                  encrypted_selections |-> Append(acc.encrypted_selections, encrypted_selection)])

\* lines 187-188 with an index that counts the reads of the random source
contest_nonce_of_counter(contest_description, seed) ==
    NonceAt(Nonces(crypto_hash(contest_description), seed),
            contest_description.sequence_order + draws)

\* encrypt_contest, lines 187-188: the contest nonce
contest_nonce_of(contest_description, seed) ==
    NonceAt(Nonces(crypto_hash(contest_description), seed), contest_description.sequence_order)

\* encrypt_contest, line 282: the seed of the constant proof
contest_proof_seed(contest_description, seed) ==
    NextNonce(Nonces(crypto_hash(contest_description), seed))

\* lines 285-293 with the outcome of is_valid_encryption ignored
verify_contest_ignored(encrypted_contest, contest_description, elgamal_public_key, should_verify_proofs) ==
    [ret |-> encrypted_contest,
     trace |-> IF should_verify_proofs
               THEN <<"validate", "nonce", "encrypt", "proof", "verify">>
               ELSE <<"validate", "nonce", "encrypt", "proof">>]

\* encrypt_contest, lines 285-293: the optional self-verification
verify_contest(encrypted_contest, contest_description, elgamal_public_key, should_verify_proofs) ==
    IF ~should_verify_proofs
    THEN [ret |-> encrypted_contest, trace |-> <<"validate", "nonce", "encrypt", "proof">>]
    ELSE IF contest_is_valid_encryption(encrypted_contest, crypto_hash(contest_description),
                                        elgamal_public_key)
         THEN [ret |-> encrypted_contest,
               trace |-> <<"validate", "nonce", "encrypt", "proof", "verify">>]
         ELSE [ret |-> None, trace |-> <<"validate", "nonce", "encrypt", "proof", "verify">>]

\* encrypt_contest, lines 192-260: the encrypted selections, real ones then placeholders
encrypt_selections(contest, contest_description, elgamal_public_key, contest_nonce) ==
    encrypt_placeholders(0, contest_description, elgamal_public_key, contest_nonce,
        encrypt_real_selections(contest_description.ballot_selections, contest,
            elgamal_public_key, contest_nonce,
            [selection_count |-> 0, highest_sequence_order |-> 0,
             encrypted_selections |-> <<>>])).encrypted_selections

\* encrypt_contest, lines 267-283: the contest with its nonce and its proof
make_encrypted_contest(contest, contest_description, elgamal_public_key, seed, encrypted_selections) ==
    [kind |-> "CyphertextBallotContest",
     object_id |-> contest.object_id,
     description_hash |-> crypto_hash(contest_description),
     ballot_selections |-> encrypted_selections,
     nonce |-> contest_nonce_of(contest_description, seed),
     proof |-> make_constant_chaum_pedersen(
                   elgamal_accumulate(encrypted_selections),
                   contest_description.number_elected,
                   aggregate_nonce(encrypted_selections),
                   elgamal_public_key,
                   contest_proof_seed(contest_description, seed))]

\* encrypt_contest, lines 267-293: from the encrypted selections to the returned value
finish_contest(contest, contest_description, elgamal_public_key, seed, should_verify_proofs, encrypted_selections) ==
    IF HasAbsent(encrypted_selections)
    THEN \* elgamal_accumulate() reads the message of an absent selection
         [ret |-> Fault, trace |-> <<"validate", "nonce", "encrypt">>]
    ELSE verify_contest(make_encrypted_contest(contest, contest_description,
                            elgamal_public_key, seed, encrypted_selections),
                        contest_description, elgamal_public_key, should_verify_proofs)

\* encrypt_contest(contest, contest_description, elgamal_public_key, seed,
\*                 should_verify_proofs = True)
encrypt_contest(contest, contest_description, elgamal_public_key, seed, should_verify_proofs) ==
    IF ~contest_is_valid(contest, contest_description.object_id,
                         Len(contest_description.ballot_selections),
                         contest_description.number_elected,
                         contest_description.votes_allowed)
    THEN [ret |-> None, trace |-> <<"validate">>]
    ELSE finish_contest(contest, contest_description, elgamal_public_key, seed,
             should_verify_proofs,
             encrypt_selections(contest, contest_description, elgamal_public_key,
                                contest_nonce_of(contest_description, seed)))

\* Election.get_ballot_style(ballot_style_id): always a BallotStyle; for an id the
\* election does not have, its first style
get_ballot_style(election_metadata, ballot_style_id) ==
    IF \E j \in 1..Len(election_metadata.ballot_styles) :
           PyEq(election_metadata.ballot_styles[j].object_id, ballot_style_id)
    THEN election_metadata.ballot_styles[
             CHOOSE j \in 1..Len(election_metadata.ballot_styles) :
                 PyEq(election_metadata.ballot_styles[j].object_id, ballot_style_id)]
    ELSE election_metadata.ballot_styles[1]

\* Election.get_contests_for(ballot_style_id): the contest descriptions of the style, in order
get_contests_for(election_metadata, ballot_style_id) ==
    get_ballot_style(election_metadata, ballot_style_id).contests

\* PlaintextBallot.is_valid(expected_ballot_style_id)
ballot_is_valid(ballot, expected_ballot_style_id) ==
    PyEq(ballot.ballot_style, expected_ballot_style_id)

\* CyphertextBallot.is_valid_encryption(seed_hash, elgamal_public_key): every contest and
\* every selection of it, recursively
ballot_is_valid_encryption(encrypted_ballot, seed_hash, elgamal_public_key) ==
    /\ encrypted_ballot.description_hash = seed_hash
    /\ \A j \in 1..Len(encrypted_ballot.contests) :
           LET contest == encrypted_ballot.contests[j]
           IN  /\ contest_is_valid_encryption(contest, contest.description_hash,
                                              elgamal_public_key)
               /\ \A i \in 1..Len(contest.ballot_selections) :
                      selection_is_valid_encryption(contest.ballot_selections[i],
                          contest.ballot_selections[i].description_hash, elgamal_public_key)

\* encrypt_ballot, lines 329-331: the seed of every contest of the ballot
hashed_ballot_nonce_of(encryption_context, ballot, random_master_nonce) ==
    hash_elems(encryption_context.crypto_extended_base_hash, ballot.object_id,
               random_master_nonce)

\* encrypt_ballot, lines 337-354: for contest in ballot.contests, under one description
RECURSIVE encrypt_contests_under(_, _, _, _, _)
encrypt_contests_under(contests, description, elgamal_public_key, hashed_ballot_nonce, acc) ==
    IF contests = <<>> THEN acc
    ELSE LET contest == Head(contests)
             encrypted_contest ==
                 IF PyIs(contest.object_id, description.object_id)
                 THEN encrypt_contest(contest, description, elgamal_public_key,
                                      hashed_ballot_nonce, TRUE).ret
                 ELSE encrypt_contest(contest_from(description), description,
                                      elgamal_public_key, hashed_ballot_nonce, TRUE).ret
         IN  encrypt_contests_under(Tail(contests), description, elgamal_public_key,
                                    hashed_ballot_nonce, Append(acc, encrypted_contest))

\* encrypt_ballot, lines 336-354: for description in get_contests_for(ballot_style)
RECURSIVE encrypt_contests(_, _, _, _, _)
encrypt_contests(descriptions, ballot, elgamal_public_key, hashed_ballot_nonce, acc) ==
    IF descriptions = <<>> THEN acc
    ELSE encrypt_contests(Tail(descriptions), ballot, elgamal_public_key, hashed_ballot_nonce,
             encrypt_contests_under(ballot.contests, Head(descriptions), elgamal_public_key,
                                    hashed_ballot_nonce, acc))

\* encrypt_ballot, lines 368-375: the optional self-verification
verify_ballot(encrypted_ballot, encryption_context, should_verify_proofs) ==
    IF ~should_verify_proofs
    THEN [ret |-> encrypted_ballot, trace |-> <<"validate", "random", "nonce", "encrypt">>]
    ELSE IF \E j \in 1..Len(encrypted_ballot.contests) : encrypted_ballot.contests[j] = None
         THEN \* is_valid_encryption reads the fields of an absent contest
              [ret |-> Fault, trace |-> <<"validate", "random", "nonce", "encrypt", "verify">>]
         ELSE IF ballot_is_valid_encryption(encrypted_ballot,
                     encryption_context.crypto_extended_base_hash,
                     encryption_context.elgamal_public_key)
              THEN [ret |-> encrypted_ballot,
                    trace |-> <<"validate", "random", "nonce", "encrypt", "verify">>]
              ELSE [ret |-> None,
                    trace |-> <<"validate", "random", "nonce", "encrypt", "verify">>]

\* encrypt_ballot, lines 356-375: from the encrypted contests to the returned value
finish_ballot(ballot, encryption_context, random_master_nonce, should_verify_proofs, encrypted_contests) ==
    IF \E j \in 1..Len(encrypted_contests) : encrypted_contests[j] = Fault
    THEN \* the exception of encrypt_contest propagates
         [ret |-> Fault, trace |-> <<"validate", "random", "nonce", "encrypt">>]
    ELSE verify_ballot([kind |-> "CyphertextBallot",
                        object_id |-> ballot.object_id,
                        ballot_style |-> ballot.ballot_style,
                        description_hash |-> encryption_context.crypto_extended_base_hash,
                        contests |-> encrypted_contests,
                        nonce |-> random_master_nonce,
                        tracking_id |-> "abc123"],
                       encryption_context, should_verify_proofs)

\* encrypt_ballot, lines 327-375: what follows the validation
encrypt_valid_ballot(ballot, election_metadata, encryption_context, random_master_nonce, should_verify_proofs) ==
         finish_ballot(ballot, encryption_context, random_master_nonce, should_verify_proofs,
             encrypt_contests(get_contests_for(election_metadata, ballot.ballot_style),
                 ballot, encryption_context.elgamal_public_key,
                 hashed_ballot_nonce_of(encryption_context, ballot, random_master_nonce),
                 <<>>))

\* encrypt_ballot with randbelow(Q) of line 328 called before the validation of lines 323-325
encrypt_ballot_draw_first(ballot, election_metadata, encryption_context, random_master_nonce, should_verify_proofs) ==
    IF ~ballot_is_valid(ballot,
                        get_ballot_style(election_metadata, ballot.ballot_style).object_id)
    THEN [ret |-> None, trace |-> <<"random", "validate">>]
    ELSE encrypt_valid_ballot(ballot, election_metadata, encryption_context,
                              random_master_nonce, should_verify_proofs)

\* encrypt_ballot(ballot, election_metadata, encryption_context, should_verify_proofs = True);
\* random_master_nonce is what randbelow(Q) returns when it is called
encrypt_ballot(ballot, election_metadata, encryption_context, random_master_nonce, should_verify_proofs) ==
    IF ~ballot_is_valid(ballot,
                        get_ballot_style(election_metadata, ballot.ballot_style).object_id)
    THEN [ret |-> None, trace |-> <<"validate">>]
    ELSE encrypt_valid_ballot(ballot, election_metadata, encryption_context,
                              random_master_nonce, should_verify_proofs)

\* ------------------------------------------------------------------ inputs

Booleans == {TRUE, FALSE}

\* the str objects held by the election's descriptions have identity 0; a caller's
\* str of the same value is that object (0) or another one (1)
Refs == {0, 1}

SelectionIds == {"A", "B"}
ContestIds == {"c1", "c2"}

\* "2" is a plaintext that is no boolean
Plaintexts == {"False", "True", "2"}

SeqsUpTo2(S) == {<<>>} \cup {<<x>> : x \in S} \cup {<<x, y>> : x \in S, y \in S}

SelectionDescriptions ==
    {[object_id |-> Str(s, 0), sequence_order |-> n] : s \in SelectionIds, n \in 0..MaxSeq}

VoterSelections ==
    {[object_id |-> Str(s, r), plaintext |-> p, is_placeholder |-> FALSE] :
        s \in SelectionIds, r \in Refs, p \in Plaintexts}

PlaintextSelections ==
    VoterSelections \cup
    {[object_id |-> Str(s, 0), plaintext |-> p, is_placeholder |-> TRUE] :
        s \in SelectionIds, p \in Plaintexts}

\* the selection descriptions of a contest: distinct ids, distinct sequence orders
SelectionLists ==
    {<<>>}
    \cup {<<[object_id |-> Str("A", 0), sequence_order |-> n]>> : n \in 0..MaxSeq}
    \cup {<<[object_id |-> Str("A", 0), sequence_order |-> nm[1]],
            [object_id |-> Str("B", 0), sequence_order |-> nm[2]]>> :
              nm \in {x \in (0..MaxSeq) \X (0..MaxSeq) : x[1] # x[2]}}

\* n-of-m contests: votes_allowed is number_elected
ContestDescriptions ==
    {[object_id |-> Str("c1", 0), sequence_order |-> n, ballot_selections |-> l,
      number_elected |-> e, votes_allowed |-> e] :
        n \in 0..MaxSeq, l \in SelectionLists, e \in 1..MaxElected}

\* the voter's contest, for the contest "c1" or (with at most one selection) for another
PlaintextContests ==
    {[object_id |-> Str("c1", 0), ballot_selections |-> l] : l \in SeqsUpTo2(VoterSelections)}
    \cup {[object_id |-> Str("c2", 0), ballot_selections |-> l] :
             l \in {<<>>} \cup {<<x>> : x \in VoterSelections}}

PublicKey == "K"
ExtendedBaseHash == "Qbar"

\* the seed of a contest: a hashed ballot nonce
ContestSeeds == {hash_elems(ExtendedBaseHash, "b1", n) : n \in {0, Q - 1}}

\* the seed of a selection: a contest nonce
SelectionSeeds ==
    {hash_elems(<<"c1", n>>, hash_elems(ExtendedBaseHash, "b1", 0), n) : n \in 0..MaxSeq}

\* the election of the compositor: two contests, two ballot styles
ElectionContest1 ==
    [object_id |-> Str("c1", 0), sequence_order |-> 0,
     ballot_selections |-> <<[object_id |-> Str("A", 0), sequence_order |-> 0],
                             [object_id |-> Str("B", 0), sequence_order |-> 1]>>,
     number_elected |-> 1, votes_allowed |-> 1]

ElectionContest2 ==
    [object_id |-> Str("c2", 0), sequence_order |-> 1,
     ballot_selections |-> <<[object_id |-> Str("A", 0), sequence_order |-> 1]>>,
     number_elected |-> 1, votes_allowed |-> 1]

ElectionMetadata ==
    [ballot_styles |->
        <<[object_id |-> Str("s1", 0), contests |-> <<ElectionContest1, ElectionContest2>>],
          [object_id |-> Str("s2", 0), contests |-> <<ElectionContest2>>]>>]

EncryptionContext ==
    [elgamal_public_key |-> PublicKey, crypto_extended_base_hash |-> ExtendedBaseHash]

BallotContests ==
    {[object_id |-> Str(c, r), ballot_selections |-> l] :
        c \in ContestIds, r \in Refs,
        l \in {<<>>,
               <<[object_id |-> Str("A", 0), plaintext |-> "True", is_placeholder |-> FALSE]>>,
               <<[object_id |-> Str("A", 0), plaintext |-> "True", is_placeholder |-> FALSE],
                 [object_id |-> Str("B", 0), plaintext |-> "True", is_placeholder |-> FALSE]>>}}

PlaintextBallots ==
    {[object_id |-> "b1", ballot_style |-> Str(st, 0), contests |-> l] :
        st \in {"s1", "s2", "sX"}, l \in SeqsUpTo2(BallotContests)}

\* ------------------------------------------------------------------ the state machine

\* EncryptionCompositor.__init__(election_metadata, encryption_context)
Init ==
    /\ compositor = [_metadata |-> ElectionMetadata, _encryption |-> EncryptionContext]
    /\ op = "idle"
    /\ args = [none |-> TRUE]
    /\ result = None
    /\ trace = <<>>
    /\ calls = 0
    /\ draws = 0
    /\ accepted = 0
    /\ memo = None

\* What a call leaves in the state: the returned value and the steps it took; the
\* process-wide random source is read once for each "random" step.
Returned(name, arguments, r) ==
    /\ op' = name
    /\ args' = arguments
    /\ result' = r.ret
    /\ trace' = r.trace
    /\ draws' = draws + Count(r.trace, "random")
    /\ UNCHANGED <<compositor, memo>>

\* a call of encrypt_selection
EncryptSelection ==
    /\ op = "idle"
    /\ \E selection \in PlaintextSelections, description \in SelectionDescriptions,
       seed \in SelectionSeeds, is_placeholder \in Booleans, should_verify_proofs \in Booleans :
        /\ Returned("encrypt_selection",
                    [selection |-> selection, description |-> description,
                     elgamal_public_key |-> PublicKey, seed |-> seed,
                     is_placeholder |-> is_placeholder,
                     should_verify_proofs |-> should_verify_proofs],
                    encrypt_selection(selection, description, PublicKey, seed, is_placeholder,
                                      should_verify_proofs))
        /\ UNCHANGED <<calls, accepted>>

\* a call of encrypt_contest
EncryptContest ==
    /\ op = "idle"
    /\ \E contest \in PlaintextContests, description \in ContestDescriptions,
       seed \in ContestSeeds, should_verify_proofs \in Booleans :
        /\ Returned("encrypt_contest",
                    [contest |-> contest, description |-> description,
                     elgamal_public_key |-> PublicKey, seed |-> seed,
                     should_verify_proofs |-> should_verify_proofs],
                    encrypt_contest(contest, description, PublicKey, seed, should_verify_proofs))
        /\ UNCHANGED <<calls, accepted>>

\* a call of encrypt_ballot with these arguments; randbelow(Q) returns any of 0..Q-1
BallotCall(name, ballot, election_metadata, encryption_context, should_verify_proofs) ==
    \E random_master_nonce \in 0..(Q - 1) :
        /\ Returned(name,
                    [ballot |-> ballot, election_metadata |-> election_metadata,
                     encryption_context |-> encryption_context,
                     should_verify_proofs |-> should_verify_proofs],
                    encrypt_ballot(ballot, election_metadata, encryption_context,
                                   random_master_nonce, should_verify_proofs))
        /\ calls' = calls + 1
        /\ accepted' = accepted + (IF ballot_is_valid(ballot,
                                          get_ballot_style(election_metadata,
                                              ballot.ballot_style).object_id)
                                   THEN 1 ELSE 0)

\* a call of encrypt_ballot
EncryptBallot ==
    /\ op = "idle"
    /\ calls < MaxCalls
    /\ \E ballot \in PlaintextBallots, should_verify_proofs \in Booleans :
        BallotCall("encrypt_ballot", ballot, ElectionMetadata, EncryptionContext,
                   should_verify_proofs)

\* EncryptionCompositor.encrypt(ballot)
Encrypt ==
    /\ op = "idle"
    /\ calls < MaxCalls
    /\ \E ballot \in PlaintextBallots :
        BallotCall("encrypt", ballot, compositor._metadata, compositor._encryption, TRUE)

\* the caller takes the returned value: nothing of the call is kept
Return ==
    /\ op # "idle"
    /\ op' = "idle"
    /\ args' = [none |-> TRUE]
    /\ result' = None
    /\ trace' = <<>>
    /\ UNCHANGED <<compositor, calls, draws, accepted, memo>>

Next == EncryptSelection \/ EncryptContest \/ EncryptBallot \/ Encrypt \/ Return

Spec == Init /\ [][Next]_vars

\* ------------------------------------------------------------------ repeated runs

\* the runs of encrypt_contest that are compared: the contests of the election, a voter
\* contest with no vote, one vote and two votes, either seed, with and without verification
IdemDescriptions ==
    {ElectionContest1, ElectionContest2,
     [ElectionContest1 EXCEPT !.number_elected = 2, !.votes_allowed = 2]}

\* the voter's contests, and one that names a selection twice
IdemContests ==
    {c \in BallotContests : c.object_id = Str("c1", 0)}
    \cup {[object_id |-> Str("c1", 0),
           ballot_selections |-> <<selection_from(ElectionContest1.ballot_selections[1], FALSE, TRUE),
                                   selection_from(ElectionContest1.ballot_selections[1], FALSE, TRUE)>>]}

\* the ballots encrypted between two runs of encrypt_contest
IdemBallots == {b \in PlaintextBallots : b.contests = <<>>}

\* a run of encrypt_contest
IdemEncryptContest ==
    /\ op = "idle"
    /\ \E contest \in IdemContests, description \in IdemDescriptions,
          seed \in ContestSeeds, should_verify_proofs \in Booleans :
           /\ Returned("encrypt_contest",
                  [contest |-> contest, description |-> description,
                   elgamal_public_key |-> PublicKey, seed |-> seed,
                   should_verify_proofs |-> should_verify_proofs],
                  encrypt_contest(contest, description, PublicKey, seed, should_verify_proofs))
           /\ UNCHANGED <<calls, accepted>>

\* a call of encrypt() between two runs of encrypt_contest
IdemEncrypt ==
    /\ op = "idle"
    /\ calls < MaxCalls
    /\ \E ballot \in IdemBallots :
           BallotCall("encrypt", ballot, compositor._metadata, compositor._encryption, TRUE)

\* the first run returns: its arguments and its result are kept for the comparison
Remember ==
    /\ op = "encrypt_contest"
    /\ memo = None
    /\ memo' = [args |-> args, result |-> result, draws |-> draws]
    /\ op' = "idle"
    /\ args' = [none |-> TRUE]
    /\ result' = None
    /\ trace' = <<>>
    /\ UNCHANGED <<compositor, calls, draws, accepted>>

NextIdem == IdemEncryptContest \/ IdemEncrypt \/ Remember \/ Return

SpecIdem == Init /\ [][NextIdem]_vars

\* ------------------------------------------------------------------ properties

BallotOps == {"encrypt_ballot", "encrypt"}

\* the selections (of a returned contest) that encrypt the value 1
TrueCountOf(selections) ==
    Cardinality({j \in 1..Len(selections) : selections[j].message.m = 1})

\* section 3 of the specification, PlaintextBallotContest: object ids unique per contest
UniqueIds(contest) ==
    \A i, j \in 1..Len(contest.ballot_selections) :
        i # j => ~PyEq(contest.ballot_selections[i].object_id,
                       contest.ballot_selections[j].object_id)

\* the selections of the voter's contest with the value 1
VoterTrue(contest) ==
    Cardinality({j \in 1..Len(contest.ballot_selections) :
                    to_int(contest.ballot_selections[j]) = 1})

\* the arguments of the last call of encrypt_contest pass its validation
ContestArgsValid ==
    contest_is_valid(args.contest, args.description.object_id,
                     Len(args.description.ballot_selections),
                     args.description.number_elected, args.description.votes_allowed)

\* the arguments of the last call of encrypt_ballot pass its validation
BallotArgsValid ==
    ballot_is_valid(args.ballot,
        get_ballot_style(args.election_metadata, args.ballot.ballot_style).object_id)

\* the contest descriptions of the style of the last call of encrypt_ballot
BallotDescriptions == get_contests_for(args.election_metadata, args.ballot.ballot_style)

ExpectedContest(ballot, description) ==
    IF \E j \in 1..Len(ballot.contests) : PyEq(ballot.contests[j].object_id, description.object_id)
    THEN ballot.contests[CHOOSE j \in 1..Len(ballot.contests) :
                             PyEq(ballot.contests[j].object_id, description.object_id)]
    ELSE contest_from(description)

\* C2: a ballot returned by encrypt_ballot holds exactly one encrypted contest per contest
\* description of the style, in description order: the voter's contest where one matches,
\* the synthesized all-false contest otherwise.
C2_OneContestPerDescription ==
    (op \in BallotOps /\ IsSome(result))
    => /\ Len(result.contests) = Len(BallotDescriptions)
       /\ \A j \in 1..Len(BallotDescriptions) :
              result.contests[j] =
                  encrypt_contest(ExpectedContest(args.ballot, BallotDescriptions[j]),
                      BallotDescriptions[j], args.encryption_context.elgamal_public_key,
                      hashed_ballot_nonce_of(args.encryption_context, args.ballot, result.nonce),
                      TRUE).ret

\* C3: when a call of encrypt_selection made by encrypt_contest returns absence,
\* encrypt_contest returns absence; when a call of encrypt_contest made by encrypt_ballot
\* returns absence, encrypt_ballot returns absence; no returned contest or ballot holds an
\* absent child.
C3_ChildFailurePropagates ==
    /\ (/\ op = "encrypt_contest"
        /\ ContestArgsValid
        /\ LET children == encrypt_selections(args.contest, args.description,
                               args.elgamal_public_key,
                               contest_nonce_of(args.description, args.seed))
           IN  \E j \in 1..Len(children) : children[j] = None)
       => result = None
    /\ (/\ op \in BallotOps
        /\ BallotArgsValid
        /\ \A n \in 0..(Q - 1) :
               LET children == encrypt_contests(BallotDescriptions, args.ballot,
                                   args.encryption_context.elgamal_public_key,
                                   hashed_ballot_nonce_of(args.encryption_context,
                                                          args.ballot, n),
                                   <<>>)
               IN  \E j \in 1..Len(children) : children[j] = None)
       => result = None
    /\ (op = "encrypt_contest" /\ IsSome(result))
       => \A j \in 1..Len(result.ballot_selections) : result.ballot_selections[j] # None
    /\ (op \in BallotOps /\ IsSome(result))
       => \A j \in 1..Len(result.contests) : result.contests[j] # None

\* the ballot style named by the last call of encrypt_ballot is one of the election
StyleKnown ==
    \E j \in 1..Len(args.election_metadata.ballot_styles) :
        PyEq(args.election_metadata.ballot_styles[j].object_id, args.ballot.ballot_style)

Before(s, t) ==
    \E i, j \in 1..Len(trace) : i < j /\ trace[i] = s /\ trace[j] = t

\* C5: with should_verify_proofs true, a value is returned only if is_valid_encryption of
\* the value just built holds against the description hash (the extended base hash for a
\* ballot) and the public key, and a contest that fails it is not returned; the proof is
\* attached before the verification runs and before the value is returned.
C5_SelfVerificationGates ==
    /\ (op = "encrypt_selection" /\ args.should_verify_proofs /\ IsSome(result))
       => /\ selection_is_valid_encryption(result, crypto_hash(args.description),
                                           args.elgamal_public_key)
          /\ Before("proof", "verify")
    /\ (op = "encrypt_contest" /\ args.should_verify_proofs /\ IsSome(result))
       => /\ contest_is_valid_encryption(result, crypto_hash(args.description),
                                         args.elgamal_public_key)
          /\ Before("proof", "verify")
    /\ (op \in BallotOps /\ args.should_verify_proofs /\ IsSome(result))
       => /\ ballot_is_valid_encryption(result,
                 args.encryption_context.crypto_extended_base_hash,
                 args.encryption_context.elgamal_public_key)
          /\ trace[Len(trace)] = "verify"
    /\ (op \in {"encrypt_selection", "encrypt_contest"} /\ IsSome(result))
       => (Count(trace, "proof") = 1 /\ result.proof # None)

\* a contest whose constant proof does not verify, refused by the self-verification
C5_Witness ==
    /\ op = "encrypt_contest"
    /\ args.should_verify_proofs
    /\ ContestArgsValid
    /\ result = None
    /\ Before("proof", "verify")

\* C6: in a returned contest no placeholder shares its sequence_order, or its object id,
\* with a real selection or with another placeholder. (The description hash of a selection
\* is the pair of the object id and the sequence_order of its description.)
C6_PlaceholderSequenceOrdersUnique ==
    (op = "encrypt_contest" /\ IsSome(result))
    => LET selections == result.ballot_selections
       IN  \A p \in (Len(args.description.ballot_selections) + 1)..Len(selections) :
               \A j \in 1..Len(selections) :
                   j # p => /\ selections[j].description_hash[2]
                               # selections[p].description_hash[2]
                            /\ selections[j].object_id.s # selections[p].object_id.s

\* C7: in a returned selection or contest the seed of the proof is not the encryption
\* nonce: the index of the nonce in the nonce sequence is not the index of the proof seed.
C7_ProofSeedIsNotTheNonce ==
    (op \in {"encrypt_selection", "encrypt_contest"} /\ IsSome(result) /\ result.proof # None)
    => (result.nonce[3] # result.proof.seed[3] /\ result.nonce # result.proof.seed)

\* every contest of the returned ballot was seeded with
\* hash(extended_base_hash, ballot.object_id, master nonce)
SameSeedForEveryContest ==
    (op \in BallotOps /\ IsSome(result))
    => \A j \in 1..Len(result.contests) :
           result.contests[j] # None
           => result.contests[j].nonce[2] =
                  hash_elems(args.encryption_context.crypto_extended_base_hash,
                             args.ballot.object_id, result.nonce)

\* C8, as claimed: after n calls of encrypt_ballot, accepted or rejected, the random source
\* has been read n times, and every contest of a ballot has the same seed.
C8_OneDrawPerCall == draws = calls /\ SameSeedForEveryContest

\* C8, amended: the random source is read once by each call of encrypt_ballot that passes
\* the validation of the ballot and not at all by a rejected call, and every contest of a
\* ballot has the same seed.
C8_OneDrawPerAcceptedCall == draws = accepted /\ SameSeedForEveryContest

\* two calls, one rejected and one returning a ballot of several contests
C8_Witness ==
    /\ calls = 2
    /\ draws = 1
    /\ op \in BallotOps
    /\ IsSome(result)
    /\ Len(result.contests) >= 2

\* the vote the voter gave for a description: 0 when none was supplied
VoterVote(contest, description) ==
    IF \E j \in 1..Len(contest.ballot_selections) :
           PyEq(contest.ballot_selections[j].object_id, description.object_id)
    THEN to_int(contest.ballot_selections[
             CHOOSE j \in 1..Len(contest.ballot_selections) :
                 PyEq(contest.ballot_selections[j].object_id, description.object_id)])
    ELSE 0

\* C10: a returned contest holds len(ballot_selections) + number_elected selections: one
\* selection that is no placeholder per selection description, in description order, with
\* the vote of the voter's selection of equal object id (0 when there is none), then
\* number_elected selections marked is_placeholder.
C10_SelectionsOfAContest ==
    (op = "encrypt_contest" /\ IsSome(result))
    => LET descriptions == args.description.ballot_selections
           selections == result.ballot_selections
       IN  /\ Len(selections) = Len(descriptions) + args.description.number_elected
           /\ \A j \in 1..Len(descriptions) :
                  /\ ~selections[j].is_placeholder
                  /\ PyEq(selections[j].object_id, descriptions[j].object_id)
                  /\ selections[j].message.m = VoterVote(args.contest, descriptions[j])
           /\ \A j \in (Len(descriptions) + 1)..Len(selections) :
                  selections[j].is_placeholder

\* the last call of encrypt_contest has the contest, the description, the public key and
\* the seed of the remembered one
SameInputs ==
    /\ op = "encrypt_contest"
    /\ memo # None
    /\ args.contest = memo.args.contest
    /\ args.description = memo.args.description
    /\ args.elgamal_public_key = memo.args.elgamal_public_key
    /\ args.seed = memo.args.seed

====
